---- MODULE Spec2Model ----
(***************************************************************************)
(* A model of CachedEnforcer (enforcer_cached.go): the sharded decision    *)
(* cache placed in front of the casbin Enforcer.                           *)
(*                                                                         *)
(* Go strings are sequences of one-character strings (their bytes are      *)
(* given by ByteOf); 32-bit hash words are kept as two 16-bit halves       *)
(* [hi, lo] so that every intermediate value stays inside the integers     *)
(* the model checker can compute with.                                     *)
(***************************************************************************)
EXTENDS Integers, Sequences, FiniteSets, TLC

VARIABLES
    enableCache,   \* e.enableCache: 0 or 1
    expireTime,    \* e.expireTime
    cache,         \* e.cache: shard index -> backend
    policy,        \* the embedded Enforcer's rule set
    intBits,       \* width of the platform's int (GOARCH): 32 or 64
    panicked,      \* the process died of a run-time panic
    last,          \* what the last call did and returned
    seen,          \* a decide(p) that returned, no mutation since
    inv,           \* progress of "invalidateAll, decide(p), decide(p)"
    fnIn,          \* arguments given to a function checked on its own
    fnOut,         \* its results
    pc,            \* goroutine -> where it stands in the call it is making
    loc,           \* goroutine -> the local variables of that call
    rheld,         \* <<shard, goroutine>>: read locks of e.locker held
    wheld,         \* <<shard, goroutine>>: write locks of e.locker held
    fresh,         \* keys whose entry was evaluated after the last policy change
    swap,          \* the last SetCache: its shard, the backend calls it cut across
    ret            \* goroutine -> the call it returned from last

\* the variables of the goroutines
concVars == <<pc, loc, rheld, wheld, fresh, swap, ret>>

vars == <<enableCache, expireTime, cache, policy, intBits, panicked, last, seen, inv, fnIn, fnOut,
          pc, loc, rheld, wheld, fresh, swap, ret>>

(***************************************************************************)
(* Bounds and program constants                                            *)
(***************************************************************************)
shardPartitions == 32

\* largest value SetExpireTime is called with
MaxExpire == 0

Shards == 0 .. (shardPartitions - 1)

(***************************************************************************)
(* Strings, parameters                                                     *)
(***************************************************************************)
ByteOf == [c \in {"a", "b", "c", "$"} |->
             CASE c = "a" -> 97 [] c = "b" -> 98 [] c = "c" -> 99 [] c = "$" -> 36]

\* a raw string parameter
S(s) == [t |-> "string", v |-> s]
\* a parameter implementing CacheableParam whose GetCacheKey() returns s
K(s) == [t |-> "cacheable", v |-> s]
\* any other parameter (a struct, a number, ...)
O == [t |-> "other", v |-> <<>>]

\* Parameter tuples the calls are made with.
Params ==
    { <<S(<<"a">>), S(<<"b">>)>>,
      <<K(<<"a">>), S(<<"b">>)>>,
      <<S(<<"c">>)>>,
      <<S(<<"c">>), S(<<"c">>)>>,
      <<S(<<"a">>), O>>,
      <<O, S(<<"a">>)>> }

\* RemovePolicies takes [][]string; as parameters its strings are raw strings.
AsParams(rule) == [i \in 1 .. Len(rule) |-> S(rule[i])]

\* The rules the policy store may hold.
PolicyRules == { <<S(<<"a">>), S(<<"b">>)>> }

(***************************************************************************)
(* getKey                                                                  *)
(***************************************************************************)
\* getKey that passes over a parameter it cannot use instead of giving up
RECURSIVE getKeyFrom_Skip(_, _, _)
getKeyFrom_Skip(params, i, key) ==
    IF i > Len(params) THEN [key |-> key, ok |-> TRUE]
    ELSE IF params[i].t \in {"string", "cacheable"}
         THEN getKeyFrom_Skip(params, i + 1, key \o params[i].v \o <<"$", "$">>)
         ELSE getKeyFrom_Skip(params, i + 1, key)

RECURSIVE getKeyFrom(_, _, _)
getKeyFrom(params, i, key) ==
    IF i > Len(params) THEN [key |-> key, ok |-> TRUE]
    ELSE IF params[i].t \in {"string", "cacheable"}
         THEN getKeyFrom(params, i + 1, key \o params[i].v \o <<"$", "$">>)
         ELSE [key |-> <<>>, ok |-> FALSE]

getKey(params) == getKeyFrom(params, 1, <<>>)

(***************************************************************************)
(* getShardIdx: FNV-1a (32 bit), int conversion, Go's %                    *)
(***************************************************************************)
RECURSIVE XorBits(_, _, _)
XorBits(x, y, n) ==
    IF n = 0 THEN 0
    ELSE (((x % 2) + (y % 2)) % 2) + 2 * XorBits(x \div 2, y \div 2, n - 1)

\* hash/fnv: offset32 = 2166136261 = 0x811C9DC5
FnvOffset32 == [hi |-> 33052, lo |-> 40389]

\* h ^= b (b a byte)
FnvXor(h, b) == [hi |-> h.hi, lo |-> (h.lo \div 256) * 256 + XorBits((h.lo % 256), b, 8)]

\* h *= prime32, prime32 = 16777619 = 0x01000193 = 256 * 65536 + 403, modulo 2^32
FnvMul(h) ==
    LET low == h.lo * 403
    IN  [hi |-> (h.hi * 403 + h.lo * 256 + (low \div 65536)) % 65536,
         lo |-> low % 65536]

RECURSIVE Fnv32a(_, _, _)
Fnv32a(s, i, h) ==
    IF i > Len(s) THEN h
    ELSE Fnv32a(s, i + 1, FnvMul(FnvXor(h, ByteOf[s[i]])))

\* int(u) for a uint32 u: the value itself where int has 64 bits; where it
\* has 32 bits, values from 2^31 wrap to u - 2^32. Sign and magnitude.
ToInt(u) ==
    IF intBits = 32 /\ u.hi >= 32768
    THEN [neg |-> TRUE,
          mag |-> IF u.lo = 0 THEN [hi |-> 65536 - u.hi, lo |-> 0]
                  ELSE [hi |-> 65535 - u.hi, lo |-> 65536 - u.lo]]
    ELSE [neg |-> FALSE, mag |-> u]

\* Go's x % n: the remainder of the truncated division, with the sign of x
GoRem(x, n) ==
    LET m == (((x.mag.hi % n) * (65536 % n)) + (x.mag.lo % n)) % n
    IN  IF x.neg THEN 0 - m ELSE m

\* h.Sum32() after h.Write([]byte(s)); the sums of the keys of Params are
\* computed once
FnvTable == [s \in { getKey(p).key : p \in Params } |-> Fnv32a(s, 1, FnvOffset32)]

Sum32(s) == IF s \in DOMAIN FnvTable THEN FnvTable[s] ELSE Fnv32a(s, 1, FnvOffset32)

getShardIdx(s) == GoRem(ToInt(Sum32(s)), shardPartitions)

(***************************************************************************)
(* Errors                                                                  *)
(***************************************************************************)
NoErr == [kind |-> "nil", shard |-> -1]
\* cache.ErrNoSuchKey
ErrNoSuchKey == [kind |-> "ErrNoSuchKey", shard |-> -1]
\* an error of the Enforcer
EngineErr == [kind |-> "engine", shard |-> -1]
\* a failure of the backend installed in shard idx
BackendErr(idx) == [kind |-> "backend", shard |-> idx]

(***************************************************************************)
(* The cache backend (cache.Cache) and the default in-memory backend       *)
(*                                                                         *)
(* A backend installed with SetCache (custom) may fail on any call; which  *)
(* of a call's backend operations fail is an input of the call: a set f    *)
(* of <<operation, shard>> pairs.                                          *)
(***************************************************************************)
EmptyMap == [k \in {} |-> FALSE]

\* cache.DefaultCache(make(map[string]bool)): holds nothing, never fails
DefaultCache == [data |-> EmptyMap, custom |-> FALSE]

\* The backends SetCache is called with.
Backends == { DefaultCache, [data |-> EmptyMap, custom |-> TRUE] }

Fault(f, op, idx) == IF <<op, idx>> \in f THEN BackendErr(idx) ELSE NoErr

CacheGet(b, key, fault) ==
    IF fault # NoErr THEN [res |-> FALSE, err |-> fault]
    ELSE IF key \in DOMAIN b.data THEN [res |-> b.data[key], err |-> NoErr]
    ELSE [res |-> FALSE, err |-> ErrNoSuchKey]

CacheSet(b, key, value, fault) ==
    IF fault # NoErr THEN [b |-> b, err |-> fault]
    ELSE [b |-> [b EXCEPT !.data = [k \in DOMAIN b.data \cup {key} |->
                                       IF k = key THEN value ELSE b.data[k]]],
          err |-> NoErr]

CacheDelete(b, key, fault) ==
    IF fault # NoErr THEN [b |-> b, err |-> fault]
    ELSE IF key \notin DOMAIN b.data THEN [b |-> b, err |-> ErrNoSuchKey]
    ELSE [b |-> [b EXCEPT !.data = [k \in DOMAIN b.data \ {key} |-> b.data[k]]],
          err |-> NoErr]

CacheClear(b, fault) ==
    IF fault # NoErr THEN [b |-> b, err |-> fault]
    ELSE [b |-> [b EXCEPT !.data = EmptyMap], err |-> NoErr]

(***************************************************************************)
(* The embedded Enforcer (the decision engine)                             *)
(***************************************************************************)
\* Enforcer.Enforce(rvals...): the decision under the current policy, or an error
EngineEnforce(p) ==
    { [res |-> p \in policy, err |-> NoErr], [res |-> FALSE, err |-> EngineErr] }

\* Enforcer.LoadPolicy(): the policy is read again from the store, or an error
EngineLoadPolicy ==
    { [policy |-> q, err |-> NoErr] : q \in SUBSET PolicyRules }
    \cup { [policy |-> policy, err |-> EngineErr] }

\* Enforcer.RemovePolicy(params...)
EngineRemovePolicy(p) ==
    { [policy |-> policy \ {p}, res |-> p \in policy, err |-> NoErr],
      [policy |-> policy, res |-> FALSE, err |-> EngineErr] }

\* Enforcer.RemovePolicies(rules)
EngineRemovePolicies(rules) ==
    LET rs == { AsParams(rules[i]) : i \in 1 .. Len(rules) }
    IN  { [policy |-> policy \ rs, res |-> rs # {} /\ rs \subseteq policy, err |-> NoErr],
          [policy |-> policy, res |-> FALSE, err |-> EngineErr] }

(***************************************************************************)
(* What a call did: the calls it made to the backends and to the engine,   *)
(* in order, each with what it answered, and what the call itself          *)
(* returned (or that it panicked).                                         *)
(***************************************************************************)
BackendCall(c, idx, key, res, err) == [c |-> c, shard |-> idx, key |-> key, res |-> res, err |-> err]
EngineCall(c, res, err) == [c |-> c, shard |-> -1, key |-> <<>>, res |-> res, err |-> err]

Ret(c, res, err, calls) == [cache |-> c, res |-> res, err |-> err, calls |-> calls, panic |-> FALSE]
\* a run-time panic (index out of range): the call never returns
Panic(c, calls) == [cache |-> c, res |-> FALSE, err |-> NoErr, calls |-> calls, panic |-> TRUE]

Count(calls, names) == Cardinality({ i \in 1 .. Len(calls) : calls[i].c \in names })

(***************************************************************************)
(* getCachedResult, setCachedResult: one backend call under the shard lock *)
(***************************************************************************)
getCachedResult(c, key, f) ==
    LET idx == getShardIdx(key)
    IN  IF idx \notin Shards THEN Panic(c, <<>>)
        ELSE LET g == CacheGet(c[idx], key, Fault(f, "Get", idx))
             IN  Ret(c, g.res, g.err, <<BackendCall("Get", idx, key, g.res, g.err)>>)

\* setCachedResult that returns nil without storing the decision
setCachedResult_NoStore(c, key, res, f) ==
    LET idx == getShardIdx(key)
    IN  IF idx \notin Shards THEN Panic(c, <<>>)
        ELSE Ret(c, res, NoErr, <<BackendCall("Set", idx, key, res, NoErr)>>)

setCachedResult(c, key, res, f) ==
    LET idx == getShardIdx(key)
    IN  IF idx \notin Shards THEN Panic(c, <<>>)
        ELSE LET s == CacheSet(c[idx], key, res, Fault(f, "Set", idx))
             IN  Ret([c EXCEPT ![idx] = s.b], res, s.err, <<BackendCall("Set", idx, key, res, s.err)>>)

(***************************************************************************)
(* Enforce: ev is what the Enforcer answers if it is asked                 *)
(***************************************************************************)
\* the call with the engine alone (lines 72 and 77)
EnforceDirect(ev) == Ret(cache, ev.res, ev.err, <<EngineCall("Enforce", ev.res, ev.err)>>)

\* the cached call that stores the engine's boolean before it looks at
\* the engine's error
EnforceCached_CacheOnError(p, ev, f) ==
    LET k == getKey(p) IN
    IF ~k.ok THEN EnforceDirect(ev)
    ELSE
    LET g == getCachedResult(cache, k.key, f) IN
    IF g.panic THEN g
    ELSE IF g.err = NoErr THEN Ret(cache, g.res, NoErr, g.calls)
    ELSE IF g.err # ErrNoSuchKey THEN Ret(cache, g.res, g.err, g.calls)
    ELSE
    LET s == setCachedResult(cache, k.key, ev.res, f)
    IN  [s EXCEPT !.calls = g.calls \o <<EngineCall("Enforce", ev.res, ev.err)>> \o s.calls,
                  !.err = IF ev.err # NoErr THEN ev.err ELSE s.err]

\* the cached call that drops the error of setCachedResult
EnforceCached_SwallowSet(p, ev, f) ==
    LET k == getKey(p) IN
    IF ~k.ok THEN EnforceDirect(ev)
    ELSE
    LET g == getCachedResult(cache, k.key, f) IN
    IF g.panic THEN g
    ELSE IF g.err = NoErr THEN Ret(cache, g.res, NoErr, g.calls)
    ELSE IF g.err # ErrNoSuchKey THEN Ret(cache, g.res, g.err, g.calls)
    ELSE IF ev.err # NoErr
    THEN Ret(cache, FALSE, ev.err, g.calls \o <<EngineCall("Enforce", ev.res, ev.err)>>)
    ELSE
    LET s == setCachedResult(cache, k.key, ev.res, f)
    IN  [s EXCEPT !.calls = g.calls \o <<EngineCall("Enforce", ev.res, ev.err)>> \o s.calls,
                  !.err = NoErr]

\* the cached call that takes every failed lookup for a miss
EnforceCached_MissOnError(p, ev, f) ==
    LET k == getKey(p) IN
    IF ~k.ok THEN EnforceDirect(ev)
    ELSE
    LET g == getCachedResult(cache, k.key, f) IN
    IF g.panic THEN g
    ELSE IF g.err = NoErr THEN Ret(cache, g.res, NoErr, g.calls)
    ELSE IF ev.err # NoErr
    THEN Ret(cache, FALSE, ev.err, g.calls \o <<EngineCall("Enforce", ev.res, ev.err)>>)
    ELSE
    LET s == setCachedResult(cache, k.key, ev.res, f)
    IN  [s EXCEPT !.calls = g.calls \o <<EngineCall("Enforce", ev.res, ev.err)>> \o s.calls]

\* the call once the cache is found enabled (lines 75 to 92)
EnforceCached(p, ev, f) ==
    LET k == getKey(p) IN
    IF ~k.ok THEN EnforceDirect(ev)
    ELSE
    LET g == getCachedResult(cache, k.key, f) IN
    IF g.panic THEN g
    ELSE IF g.err = NoErr THEN Ret(cache, g.res, NoErr, g.calls)
    ELSE IF g.err # ErrNoSuchKey THEN Ret(cache, g.res, g.err, g.calls)
    ELSE IF ev.err # NoErr
    THEN Ret(cache, FALSE, ev.err, g.calls \o <<EngineCall("Enforce", ev.res, ev.err)>>)
    ELSE
    LET s == setCachedResult(cache, k.key, ev.res, f)
    IN  [s EXCEPT !.calls = g.calls \o <<EngineCall("Enforce", ev.res, ev.err)>> \o s.calls]

\* Enforce that does not test the enable flag
EnforceRun_IgnoreFlag(p, ev, f) == EnforceCached(p, ev, f)

EnforceRun(p, ev, f) ==
    IF enableCache = 0 THEN EnforceDirect(ev) ELSE EnforceCached(p, ev, f)

(***************************************************************************)
(* LoadPolicy                                                              *)
(***************************************************************************)
\* for i := 0; i < shardPartitions; i++ { if err := e.cache[i].Clear(); ... }
RECURSIVE LoadPolicyClear(_, _, _, _)
LoadPolicyClear(c, i, calls, f) ==
    IF i >= shardPartitions THEN Ret(c, FALSE, NoErr, calls)
    ELSE LET r == CacheClear(c[i], Fault(f, "Clear", i))
             done == Append(calls, BackendCall("Clear", i, <<>>, FALSE, r.err))
         IN  IF r.err # NoErr THEN Ret(c, FALSE, r.err, done)
             ELSE LoadPolicyClear([c EXCEPT ![i] = r.b], i + 1, done, f)

\* LoadPolicy that reloads the policy although a Clear has failed
LoadPolicyRun_ReloadAnyway(lp, f) ==
    LET cl == IF enableCache # 0 THEN LoadPolicyClear(cache, 0, <<>>, f)
              ELSE Ret(cache, FALSE, NoErr, <<>>)
    IN  [r |-> Ret(cl.cache, FALSE, IF cl.err # NoErr THEN cl.err ELSE lp.err,
                   Append(cl.calls, EngineCall("LoadPolicy", FALSE, lp.err))),
         policy |-> lp.policy]

\* lp is what the Enforcer's LoadPolicy does if it is called
LoadPolicyRun(lp, f) ==
    LET cl == IF enableCache # 0 THEN LoadPolicyClear(cache, 0, <<>>, f)
              ELSE Ret(cache, FALSE, NoErr, <<>>)
    IN  IF cl.err # NoErr THEN [r |-> cl, policy |-> policy]
        ELSE [r |-> Ret(cl.cache, FALSE, lp.err, Append(cl.calls, EngineCall("LoadPolicy", FALSE, lp.err))),
              policy |-> lp.policy]

(***************************************************************************)
(* RemovePolicy, RemovePolicies                                            *)
(***************************************************************************)
\* RemovePolicy that goes to the Enforcer without deleting the entry
RemovePolicyDelete_Skip(p, f) == Ret(cache, FALSE, NoErr, <<>>)

\* the cache part of RemovePolicy
RemovePolicyDelete(p, f) ==
    IF enableCache = 0 THEN Ret(cache, FALSE, NoErr, <<>>)
    ELSE
    LET k == getKey(p) IN
    IF ~k.ok THEN Ret(cache, FALSE, NoErr, <<>>)
    ELSE
    LET idx == getShardIdx(k.key) IN
    IF idx \notin Shards THEN Panic(cache, <<>>)
    ELSE
    LET d == CacheDelete(cache[idx], k.key, Fault(f, "Delete", idx))
        done == <<BackendCall("Delete", idx, k.key, FALSE, d.err)>>
    IN  IF d.err # NoErr /\ d.err # ErrNoSuchKey THEN Ret(cache, FALSE, d.err, done)
        ELSE Ret([cache EXCEPT ![idx] = d.b], FALSE, NoErr, done)

\* rp is what the Enforcer's RemovePolicy does if it is called
RemovePolicyRun(p, rp, f) ==
    LET d == RemovePolicyDelete(p, f)
    IN  IF d.panic \/ d.err # NoErr THEN [r |-> d, policy |-> policy]
        ELSE [r |-> Ret(d.cache, rp.res, rp.err, Append(d.calls, EngineCall("RemovePolicy", rp.res, rp.err))),
              policy |-> rp.policy]

\* an unset element of make([]interface{}, n)
NilParam == [t |-> "nil", v |-> <<>>]

\* for _, rule := range rules { ... }: irule is allocated once, with the
\* length of the first rule, and written in place for every rule
RECURSIVE RemovePoliciesLoop(_, _, _, _, _, _)
RemovePoliciesLoop(rules, n, irule, c, calls, f) ==
    IF n > Len(rules) THEN Ret(c, FALSE, NoErr, calls)
    ELSE
    LET rule == rules[n] IN
    IF Len(rule) > Len(irule) THEN Panic(c, calls)
    ELSE
    LET ir  == [i \in 1 .. Len(irule) |-> IF i <= Len(rule) THEN S(rule[i]) ELSE irule[i]]
        k   == getKey(ir)
        idx == getShardIdx(k.key)
    IN  IF idx \notin Shards THEN Panic(c, calls)
        ELSE
        LET d == CacheDelete(c[idx], k.key, Fault(f, "Delete", idx))
            done == Append(calls, BackendCall("Delete", idx, k.key, FALSE, d.err))
        IN  IF d.err # NoErr /\ d.err # ErrNoSuchKey THEN Ret(c, FALSE, d.err, done)
            ELSE RemovePoliciesLoop(rules, n + 1, ir, [c EXCEPT ![idx] = d.b], done, f)

\* the cache part of RemovePolicies
RemovePoliciesDelete(rules, f) ==
    IF Len(rules) # 0 /\ enableCache # 0
    THEN RemovePoliciesLoop(rules, 1, [i \in 1 .. Len(rules[1]) |-> NilParam], cache, <<>>, f)
    ELSE Ret(cache, FALSE, NoErr, <<>>)

\* rp is what the Enforcer's RemovePolicies does if it is called
RemovePoliciesRun(rules, rp, f) ==
    LET d == RemovePoliciesDelete(rules, f)
    IN  IF d.panic \/ d.err # NoErr THEN [r |-> d, policy |-> policy]
        ELSE [r |-> Ret(d.cache, rp.res, rp.err, Append(d.calls, EngineCall("RemovePolicies", rp.res, rp.err))),
              policy |-> rp.policy]

(***************************************************************************)
(* InvalidateCache                                                         *)
(***************************************************************************)
\* the loop with its return inside the body: it returns after one shard
InvalidateCacheLoop_ReturnInLoop(c, i, calls, f) ==
    IF i >= shardPartitions THEN Ret(c, FALSE, NoErr, calls)
    ELSE LET r == CacheClear(c[i], Fault(f, "Clear", i))
             done == Append(calls, BackendCall("Clear", i, <<>>, FALSE, r.err))
         IN  Ret([c EXCEPT ![i] = r.b], FALSE, r.err, done)

\* the loop that keeps the first error and goes on to the shards after it
RECURSIVE InvalidateCacheLoop_Continue(_, _, _, _)
InvalidateCacheLoop_Continue(c, i, calls, f) ==
    IF i >= shardPartitions THEN Ret(c, FALSE, NoErr, calls)
    ELSE LET r == CacheClear(c[i], Fault(f, "Clear", i))
             done == Append(calls, BackendCall("Clear", i, <<>>, FALSE, r.err))
             rest == InvalidateCacheLoop_Continue([c EXCEPT ![i] = r.b], i + 1, done, f)
         IN  IF r.err # NoErr THEN [rest EXCEPT !.err = r.err] ELSE rest

\* for i := 0; i < shardPartitions; i++ { Lock; defer Unlock; Clear; return err }
RECURSIVE InvalidateCacheLoop(_, _, _, _)
InvalidateCacheLoop(c, i, calls, f) ==
    IF i >= shardPartitions THEN Ret(c, FALSE, NoErr, calls)
    ELSE LET r == CacheClear(c[i], Fault(f, "Clear", i))
             done == Append(calls, BackendCall("Clear", i, <<>>, FALSE, r.err))
         IN  IF r.err # NoErr THEN Ret(c, FALSE, r.err, done)
             ELSE InvalidateCacheLoop([c EXCEPT ![i] = r.b], i + 1, done, f)

InvalidateCacheRun(f) == InvalidateCacheLoop(cache, 0, <<>>, f)

(***************************************************************************)
(* Inputs and observation of the calls                                     *)
(***************************************************************************)
\* the keys SetCache is called with
SetCacheKeys == { getKey(p).key : p \in { <<S(<<"a">>), S(<<"b">>)>>, <<S(<<"c">>)>> } }

\* the sets of backend operations that may fail during a call which uses
\* the operations ops on the shards idxs: only a custom backend fails
Faults(ops, idxs) ==
    SUBSET { <<op, i>> : op \in ops, i \in { j \in idxs \cap Shards : cache[j].custom } }

\* a call that returns at its first backend failure: at most one failure
\* is ever observed
FirstFault(ops, idxs) == { f \in Faults(ops, idxs) : Cardinality(f) <= 1 }

ShardOf(p) == IF getKey(p).ok THEN {getShardIdx(getKey(p).key)} ELSE {}

\* the rule lists RemovePolicies is called with: none, one rule, rules of
\* one length, a shorter rule after a longer one, a longer after a shorter
RuleLists ==
    { <<>>,
      << <<<<"a">>, <<"b">>>> >>,
      << <<<<"a">>, <<"b">>>>, <<<<"c">>, <<"c">>>> >>,
      << <<<<"c">>, <<"c">>>>, <<<<"c">>>> >>,
      << <<<<"c">>>>, <<<<"c">>, <<"c">>>> >> }

\* p has an entry in the shard that owns its key
Cached(c, p) ==
    LET k == getKey(p)
        idx == getShardIdx(k.key)
    IN  k.ok /\ idx \in Shards /\ k.key \in DOMAIN c[idx].data

\* the parameter tuples that have an entry
CachedParams == { p \in Params : Cached(cache, p) }

StringOnly(p) == \A i \in 1 .. Len(p) : p[i].t = "string"
Eligible(p) == \A i \in 1 .. Len(p) : p[i].t \in {"string", "cacheable"}

NoSeen == [p |-> <<>>, res |-> FALSE, err |-> NoErr, n |-> 0, again |-> FALSE]

\* the calls seen follows: a decide of a string-only tuple, made with the
\* cache enabled, that returned and in which no backend failed
Tracked(p, r) == ~r.panic /\ enableCache = 1 /\ StringOnly(p) /\ r.err.kind # "backend"

\* the record of a call: args are its arguments (for InvalidateCache and
\* LoadPolicy, the backend failures that await it), was is what was cached
\* when a call that removes entries began
Done(op, args, was, r) ==
    [op |-> op, args |-> args, was |-> was, res |-> r.res, err |-> r.err, calls |-> r.calls]

(***************************************************************************)
(* The calls, one after another                                            *)
(***************************************************************************)
\* goroutines that call the enforcer
NThreads == 2
Threads == 1 .. NThreads

\* the locals of a goroutine that is in no call
NoLoc == [op |-> "none", p |-> <<>>, key |-> <<>>, idx |-> -1, n |-> 0, defers |-> <<>>,
          g |-> <<FALSE, FALSE>>, bc |-> FALSE, res |-> FALSE, err |-> NoErr,
          cur |-> FALSE, stale |-> FALSE]

NoRet == [op |-> "none", p |-> <<>>, err |-> NoErr, valid |-> FALSE]

NoSwap == [idx |-> -1, during |-> {}]

\* no goroutine is in a call
ConcIdle ==
    /\ pc = [t \in Threads |-> "idle"]
    /\ loc = [t \in Threads |-> NoLoc]
    /\ rheld = {}
    /\ wheld = {}
    /\ fresh = {}
    /\ swap = NoSwap
    /\ ret = [t \in Threads |-> NoRet]

Init ==
    /\ enableCache = 1
    /\ expireTime = 0
    /\ cache = [i \in Shards |-> DefaultCache]
    /\ policy \in SUBSET PolicyRules
    /\ intBits \in {32, 64}
    /\ panicked = FALSE
    /\ last = Done("NewCachedEnforcer", <<>>, {}, Ret(cache, FALSE, NoErr, <<>>))
    /\ seen = NoSeen
    /\ inv = "idle"
    /\ fnIn = <<>>
    /\ fnOut = <<>>
    /\ ConcIdle

EnableCache(flag) ==
    /\ ~panicked
    /\ enableCache' = IF flag THEN 1 ELSE 0
    /\ last' = Done("EnableCache", <<>>, {}, Ret(cache, FALSE, NoErr, <<>>))
    /\ seen' = NoSeen
    /\ inv' = "idle"
    /\ UNCHANGED <<expireTime, cache, policy, intBits, panicked, fnIn, fnOut, concVars>>

\* inv after Enforce(p): the first decide(p) after an InvalidateCache that
\* returned nil with p cached, then the second
InvAfterEnforce(p) ==
    IF enableCache = 1 /\ last.op = "InvalidateCache" /\ last.err = NoErr /\ p \in last.was
    THEN "first"
    ELSE IF enableCache = 1 /\ inv = "first" /\ last.args = p
    THEN "second"
    ELSE "idle"

Enforce(p) ==
    /\ ~panicked
    /\ \E ev \in EngineEnforce(p), f \in FirstFault({"Get", "Set"}, ShardOf(p)) :
         LET r == EnforceRun(p, ev, f)
             rec == [p |-> p, res |-> r.res, err |-> r.err, n |-> Count(r.calls, {"Enforce"}),
                     again |-> seen.p = p /\ seen.err = NoErr]
         IN  /\ cache' = r.cache
             /\ panicked' = r.panic
             /\ last' = Done("Enforce", p, {}, r)
             /\ seen' \in (IF ~Tracked(p, r) THEN {seen} ELSE IF seen.p = p THEN {rec} ELSE {seen, rec})
             /\ inv' = IF r.panic THEN "idle" ELSE InvAfterEnforce(p)
    /\ UNCHANGED <<enableCache, expireTime, policy, intBits, fnIn, fnOut, concVars>>

LoadPolicy ==
    /\ ~panicked
    /\ \E lp \in EngineLoadPolicy, f \in Faults({"Clear"}, Shards) :
         LET x == LoadPolicyRun(lp, f)
         IN  /\ cache' = x.r.cache
             /\ policy' = x.policy
             /\ last' = Done("LoadPolicy", f, CachedParams, x.r)
    /\ seen' = NoSeen
    /\ inv' = "idle"
    /\ UNCHANGED <<enableCache, expireTime, intBits, panicked, fnIn, fnOut, concVars>>

RemovePolicy(p) ==
    /\ ~panicked
    /\ \E rp \in EngineRemovePolicy(p), f \in FirstFault({"Delete"}, ShardOf(p)) :
         LET x == RemovePolicyRun(p, rp, f)
         IN  /\ cache' = x.r.cache
             /\ policy' = x.policy
             /\ panicked' = x.r.panic
             /\ last' = Done("RemovePolicy", p, CachedParams, x.r)
    /\ seen' = NoSeen
    /\ inv' = "idle"
    /\ UNCHANGED <<enableCache, expireTime, intBits, fnIn, fnOut, concVars>>

RemovePolicies(rules) ==
    /\ ~panicked
    /\ \E rp \in EngineRemovePolicies(rules), f \in FirstFault({"Delete"}, Shards) :
         LET x == RemovePoliciesRun(rules, rp, f)
         IN  /\ cache' = x.r.cache
             /\ policy' = x.policy
             /\ panicked' = x.r.panic
             /\ last' = Done("RemovePolicies", rules, CachedParams, x.r)
    /\ seen' = NoSeen
    /\ inv' = "idle"
    /\ UNCHANGED <<enableCache, expireTime, intBits, fnIn, fnOut, concVars>>

SetExpireTime(t) ==
    /\ ~panicked
    /\ expireTime' = t
    /\ last' = Done("SetExpireTime", <<>>, {}, Ret(cache, FALSE, NoErr, <<>>))
    /\ inv' = "idle"
    /\ UNCHANGED <<enableCache, cache, policy, intBits, panicked, seen, fnIn, fnOut, concVars>>

SetCache(key, c) ==
    /\ ~panicked
    /\ LET idx == getShardIdx(key)
       IN  /\ panicked' = (idx \notin Shards)
           /\ cache' = IF idx \in Shards THEN [cache EXCEPT ![idx] = c] ELSE cache
    /\ last' = Done("SetCache", <<>>, {}, Ret(cache, FALSE, NoErr, <<>>))
    /\ seen' = NoSeen
    /\ inv' = "idle"
    /\ UNCHANGED <<enableCache, expireTime, policy, intBits, fnIn, fnOut, concVars>>

InvalidateCache ==
    /\ ~panicked
    /\ \E f \in Faults({"Clear"}, Shards) :
         last' = Done("InvalidateCache", f, CachedParams, InvalidateCacheRun(f))
         /\ cache' = InvalidateCacheRun(f).cache
    /\ seen' = NoSeen
    /\ inv' = "idle"
    /\ UNCHANGED <<enableCache, expireTime, policy, intBits, panicked, fnIn, fnOut, concVars>>

Next ==
    \/ \E flag \in BOOLEAN : EnableCache(flag)
    \/ \E p \in Params : Enforce(p)
    \/ LoadPolicy
    \/ \E p \in Params : RemovePolicy(p)
    \/ \E rules \in RuleLists : RemovePolicies(rules)
    \/ \E t \in 0 .. MaxExpire : SetExpireTime(t)
    \/ \E key \in SetCacheKeys, c \in Backends : SetCache(key, c)
    \/ InvalidateCache

Spec == Init /\ [][Next]_vars

(***************************************************************************)
(* Claims.  A claim about one call is stated of every reachable state and  *)
(* every input the call can be given there: what the call does is the      *)
(* result of its Run operator, which is what the action installs.          *)
(***************************************************************************)
\* the failures a decide(p) can meet: Enforce calls Get and Set, on the
\* shard of p's key only
EnforceFaults(p) == Faults({"Get", "Set"}, ShardOf(p))

Engine(calls) == Count(calls, {"Enforce"})

\* the entry of key k in shard i of c: <<present, value>>
Entry(c, i, k) == IF k \in DOMAIN c[i].data THEN <<TRUE, c[i].data[k]>> ELSE <<FALSE, FALSE>>

KeysIn(c) == UNION { DOMAIN c[i].data : i \in Shards }

\* every entry of c under a key outside keys is in d as it is in c, and d
\* has no other entry under such a key
SameExcept(c, d, keys) ==
    \A i \in Shards : \A k \in (KeysIn(c) \cup KeysIn(d)) \ keys : Entry(c, i, k) = Entry(d, i, k)

Empty(c) == \A i \in Shards : c[i].data = EmptyMap

\* C1 as claimed: with the cache enabled and no backend failure, a decide(p)
\* of a string-only p that follows a returned decide(p), no mutation in
\* between, returns the same boolean, and the two calls invoke the engine at
\* most once together.
C1_Original ==
    \A p \in Params :
        (seen.p = p /\ StringOnly(p) /\ enableCache = 1 /\ ~panicked) =>
            \A ev \in EngineEnforce(p), f \in FirstFault({"Get", "Set"}, ShardOf(p)) :
                LET r == EnforceRun(p, ev, f)
                IN  (~r.panic /\ r.err.kind # "backend") =>
                        /\ r.res = seen.res
                        /\ seen.n + Engine(r.calls) <= 1

\* C1 amended: the same, when the first decide(p) returned without error.
C1_SameDecision ==
    \A p \in Params :
        (seen.p = p /\ seen.err = NoErr /\ StringOnly(p) /\ enableCache = 1 /\ ~panicked) =>
            \A ev \in EngineEnforce(p), f \in FirstFault({"Get", "Set"}, ShardOf(p)) :
                LET r == EnforceRun(p, ev, f)
                IN  (~r.panic /\ r.err.kind # "backend") =>
                        /\ r.res = seen.res
                        /\ seen.n + Engine(r.calls) <= 1

\* a second decide(p) has returned true from the cache
C1_Witness ==
    /\ last.op = "Enforce" /\ last.args = seen.p /\ seen.again
    /\ enableCache = 1 /\ last.err = NoErr /\ last.res /\ Engine(last.calls) = 0

\* C2 as claimed: a loadPolicy() that returns without error leaves no entry
\* in any shard, whatever the enable flag.
C2_Original ==
    ~panicked =>
        \A lp \in EngineLoadPolicy, f \in Faults({"Clear"}, Shards) :
            LoadPolicyRun(lp, f).r.err = NoErr => Empty(LoadPolicyRun(lp, f).r.cache)

\* C3 as claimed: with the cache enabled, after removeRule(p) returns for a
\* cacheable p, its key has no entry in its shard and every entry under
\* another key is as it was.
C3_Original ==
    \A p \in Params :
        (enableCache = 1 /\ getKey(p).ok /\ ~panicked) =>
            \A rp \in EngineRemovePolicy(p), f \in FirstFault({"Delete"}, ShardOf(p)) :
                LET x == RemovePolicyRun(p, rp, f)
                IN  ~x.r.panic =>
                        /\ ~Cached(x.r.cache, p)
                        /\ SameExcept(cache, x.r.cache, {getKey(p).key})

\* C3 amended: the same, when removeRule(p) returns no backend error.
C3_RemoveExact ==
    \A p \in Params :
        (enableCache = 1 /\ getKey(p).ok /\ ~panicked) =>
            \A rp \in EngineRemovePolicy(p), f \in FirstFault({"Delete"}, ShardOf(p)) :
                LET x == RemovePolicyRun(p, rp, f)
                IN  (~x.r.panic /\ x.r.err.kind # "backend") =>
                        /\ ~Cached(x.r.cache, p)
                        /\ SameExcept(cache, x.r.cache, {getKey(p).key})

\* removeRule(p) has removed p's entry and another entry is still cached
C3_Witness ==
    /\ last.op = "RemovePolicy" /\ enableCache = 1 /\ last.err = NoErr
    /\ last.args \in last.was /\ ~Cached(cache, last.args)
    /\ CachedParams # {}

\* the keys of the rules of a list, each from the rule's own parameters
RuleKeys(rules) == { getKey(AsParams(rules[n])).key : n \in 1 .. Len(rules) }

\* C4 as claimed: with the cache enabled, removeRules(rules) that returns
\* without backend failure has deleted the entry of every rule's own key and
\* no entry under another key, for every non-empty list, rules of different
\* lengths included.
C4_Original ==
    \A rules \in RuleLists :
        (enableCache = 1 /\ rules # <<>> /\ ~panicked) =>
            \A rp \in EngineRemovePolicies(rules), f \in FirstFault({"Delete"}, Shards) :
                LET x == RemovePoliciesRun(rules, rp, f)
                IN  (~x.r.panic /\ x.r.err.kind # "backend") =>
                        /\ \A n \in 1 .. Len(rules) : ~Cached(x.r.cache, AsParams(rules[n]))
                        /\ SameExcept(cache, x.r.cache, RuleKeys(rules))

\* C5: with the enable flag off, decide(p) makes no backend call, leaves
\* every shard as it is and returns what the engine returns.
C5_DisabledBypass ==
    (enableCache = 0 /\ ~panicked) =>
        \A p \in Params : \A ev \in EngineEnforce(p), f \in EnforceFaults(p) :
            LET r == EnforceRun(p, ev, f)
            IN  /\ ~r.panic
                /\ r.cache = cache
                /\ r.calls = <<EngineCall("Enforce", ev.res, ev.err)>>
                /\ r.res = ev.res /\ r.err = ev.err

\* a decide(p) made with the flag off has returned the engine's answer
\* although p has an entry that holds another answer
C5_Witness ==
    /\ last.op = "Enforce" /\ enableCache = 0 /\ last.err = NoErr
    /\ Cached(cache, last.args)
    /\ Entry(cache, getShardIdx(getKey(last.args).key), getKey(last.args).key) # <<TRUE, last.res>>

\* C6: a decide(p) with an ineligible parameter, wherever it stands, gets
\* no key (not even a partial one), invokes the engine once and makes no
\* backend call.
C6_IneligibleBypass ==
    ~panicked =>
        \A p \in Params :
            ~Eligible(p) =>
                /\ getKey(p) = [key |-> <<>>, ok |-> FALSE]
                /\ \A ev \in EngineEnforce(p), f \in EnforceFaults(p) :
                       LET r == EnforceRun(p, ev, f)
                       IN  /\ ~r.panic
                           /\ r.cache = cache
                           /\ r.calls = <<EngineCall("Enforce", ev.res, ev.err)>>

\* with the cache enabled, a decide whose second parameter is ineligible
\* has gone to the engine
C6_Witness ==
    /\ last.op = "Enforce" /\ enableCache = 1
    /\ Len(last.args) = 2 /\ last.args[1].t = "string" /\ last.args[2].t = "other"
    /\ Engine(last.calls) = 1 /\ Len(last.calls) = 1

\* the lookup of a decide failed with a backend error
LookupFailed(r) ==
    Len(r.calls) > 0 /\ r.calls[1].c = "Get" /\ r.calls[1].err.kind = "backend"

\* C8 as claimed: an invalidateAll() that returns without error leaves every
\* shard empty; the next decide(p) of a p that was cached invokes the engine
\* exactly once and the decide(p) after that does not invoke it.
C8_Original ==
    /\ ~panicked =>
           \A f \in Faults({"Clear"}, Shards) :
               InvalidateCacheRun(f).err = NoErr => Empty(InvalidateCacheRun(f).cache)
    /\ (last.op = "InvalidateCache" /\ last.err = NoErr /\ enableCache = 1 /\ ~panicked) =>
           \A p \in last.was : \A ev \in EngineEnforce(p), f \in FirstFault({"Get", "Set"}, ShardOf(p)) :
               LET r == EnforceRun(p, ev, f) IN ~r.panic => Engine(r.calls) = 1
    /\ (inv = "first" /\ enableCache = 1 /\ ~panicked) =>
           \A ev \in EngineEnforce(last.args), f \in FirstFault({"Get", "Set"}, ShardOf(last.args)) :
               LET r == EnforceRun(last.args, ev, f) IN ~r.panic => Engine(r.calls) = 0

\* C8 amended: the next decide(p) invokes the engine exactly once unless its
\* lookup fails; and when it returned without error, the decide(p) after it
\* does not invoke the engine.
C8_InvalidateThenDecide ==
    /\ ~panicked =>
           \A f \in Faults({"Clear"}, Shards) :
               InvalidateCacheRun(f).err = NoErr => Empty(InvalidateCacheRun(f).cache)
    /\ (last.op = "InvalidateCache" /\ last.err = NoErr /\ enableCache = 1 /\ ~panicked) =>
           \A p \in last.was : \A ev \in EngineEnforce(p), f \in FirstFault({"Get", "Set"}, ShardOf(p)) :
               LET r == EnforceRun(p, ev, f)
               IN  (~r.panic /\ ~LookupFailed(r)) => Engine(r.calls) = 1
    /\ (inv = "first" /\ last.err = NoErr /\ enableCache = 1 /\ ~panicked) =>
           \A ev \in EngineEnforce(last.args), f \in FirstFault({"Get", "Set"}, ShardOf(last.args)) :
               LET r == EnforceRun(last.args, ev, f) IN ~r.panic => Engine(r.calls) = 0

\* after an invalidateAll() the second decide(p) has returned from the cache
C8_Witness ==
    /\ inv = "second" /\ last.op = "Enforce" /\ enableCache = 1
    /\ last.err = NoErr /\ Engine(last.calls) = 0

\* the Clear calls made on shard i
ClearsOf(calls, i) == { n \in 1 .. Len(calls) : calls[n].c = "Clear" /\ calls[n].shard = i }

\* the lowest shard whose Clear fails
FirstFailing(f) == CHOOSE i \in Shards : <<"Clear", i>> \in f /\ \A j \in 0 .. (i - 1) : <<"Clear", j>> \notin f

C10_LookupFailure ==
    (enableCache = 1 /\ ~panicked) =>
        \A p \in Params : \A ev \in EngineEnforce(p), f \in EnforceFaults(p) :
            LET r == EnforceRun(p, ev, f)
            IN  (~r.panic /\ LookupFailed(r)) =>
                    /\ r.err = r.calls[1].err
                    /\ r.err = BackendErr(r.calls[1].shard)
                    /\ Len(r.calls) = 1
                    /\ r.cache = cache

\* a decide has returned the error of its failed lookup
C10_Witness ==
    /\ last.op = "Enforce" /\ enableCache = 1
    /\ LookupFailed(last) /\ last.err = last.calls[1].err /\ Len(last.calls) = 1

(***************************************************************************)
(* getKey on its own: two parameter lists are drawn, their keys derived.   *)
(***************************************************************************)
\* longest parameter string drawn
MaxStrLen == 2
\* most parameters in a list
MaxTuple == 2

KeyChars == {"a", "$"}

KeyStrings == UNION { [1 .. n -> KeyChars] : n \in 0 .. MaxStrLen }

\* strings, and CacheableParams by what GetCacheKey returns
KeyParams == { S(s) : s \in KeyStrings } \cup { K(s) : s \in { t \in KeyStrings : Len(t) <= 1 } }

KeyTuples == UNION { [1 .. n -> KeyParams] : n \in 0 .. MaxTuple }

InitKey ==
    /\ enableCache = 1
    /\ expireTime = 0
    /\ cache = [i \in Shards |-> DefaultCache]
    /\ policy = {}
    /\ intBits = 64
    /\ panicked = FALSE
    /\ last = Done("NewCachedEnforcer", <<>>, {}, Ret(cache, FALSE, NoErr, <<>>))
    /\ seen = NoSeen
    /\ inv = "idle"
    /\ fnIn \in KeyTuples \X KeyTuples
    /\ fnOut = <<>>
    /\ ConcIdle

DeriveKeys ==
    /\ fnOut = <<>>
    /\ fnOut' = <<getKey(fnIn[1]), getKey(fnIn[2])>>
    /\ UNCHANGED <<enableCache, expireTime, cache, policy, intBits, panicked, last, seen, inv, fnIn, concVars>>

NextKey == DeriveKeys

SpecKey == InitKey /\ [][NextKey]_vars

\* the same parameters at the same positions, a parameter being the text
\* it gives to the key
SameParams(p, q) == Len(p) = Len(q) /\ \A i \in 1 .. Len(p) : p[i].v = q[i].v

\* C7 as claimed: two lists of strings or CacheableParams get equal keys
\* only if they have the same length and equal parameters at every
\* position, strings that contain the separator characters included.
C7_Original ==
    (fnOut # <<>> /\ fnOut[1].ok /\ fnOut[2].ok /\ fnOut[1].key = fnOut[2].key)
        => SameParams(fnIn[1], fnIn[2])

(***************************************************************************)
(* Errors of the engine and of the backend during Enforce and LoadPolicy   *)
(***************************************************************************)
\* C11: when the engine returns an error for a decide(p) on a cache miss,
\* decide returns that error and writes nothing; and every entry a decide
\* creates or changes holds the boolean the engine returned in that call
\* together with a nil error.
C11_FailedEvaluationNotCached ==
    ~panicked =>
        \A p \in Params : \A ev \in EngineEnforce(p), f \in EnforceFaults(p) :
            LET r == EnforceRun(p, ev, f)
            IN  ~r.panic =>
                    /\ (enableCache = 1 /\ Engine(r.calls) = 1 /\ ev.err # NoErr) =>
                           /\ r.err = ev.err
                           /\ r.cache = cache
                           /\ Count(r.calls, {"Set"}) = 0
                    /\ r.cache # cache =>
                           /\ ev.err = NoErr
                           /\ Engine(r.calls) = 1
                           /\ SameExcept(cache, r.cache, {getKey(p).key})
                           /\ Entry(r.cache, getShardIdx(getKey(p).key), getKey(p).key) = <<TRUE, ev.res>>

\* a decide of a cacheable p has met a miss and an engine error, has
\* returned the error, and p has no entry
C11_Witness ==
    /\ last.op = "Enforce" /\ enableCache = 1 /\ ~panicked
    /\ Eligible(last.args) /\ last.err = EngineErr
    /\ Len(last.calls) = 2 /\ last.calls[1].err = ErrNoSuchKey
    /\ ~Cached(cache, last.args)

\* the Set of a decide failed with a backend error
StoreFailed(r) ==
    Len(r.calls) > 0 /\ r.calls[Len(r.calls)].c = "Set" /\ r.calls[Len(r.calls)].err.kind = "backend"

\* C12: when the engine evaluates p without error on a cache miss and the
\* backend's Set fails, decide(p) returns the Set's error (not nil),
\* together with the engine's boolean.
C12_StoreFailureSurfaced ==
    (enableCache = 1 /\ ~panicked) =>
        \A p \in Params : \A ev \in EngineEnforce(p), f \in EnforceFaults(p) :
            LET r == EnforceRun(p, ev, f)
            IN  (~r.panic /\ StoreFailed(r)) =>
                    /\ ev.err = NoErr
                    /\ r.err = r.calls[Len(r.calls)].err
                    /\ r.err # NoErr
                    /\ r.res = ev.res

\* a decide whose engine call answered true has returned the error of its
\* failed Set
C12_Witness ==
    /\ last.op = "Enforce" /\ enableCache = 1 /\ ~panicked
    /\ StoreFailed(last) /\ last.err.kind = "backend" /\ last.res
    /\ Engine(last.calls) = 1

\* C13: with the cache enabled, when a Clear fails during loadPolicy(),
\* loadPolicy returns that error, does not call the engine's reload, and
\* the engine's policy is as it was.
C13_ReloadAborted ==
    (enableCache = 1 /\ ~panicked) =>
        \A lp \in EngineLoadPolicy, f \in Faults({"Clear"}, Shards) :
            f # {} =>
                LET x == LoadPolicyRun(lp, f)
                IN  /\ x.r.err = BackendErr(FirstFailing(f))
                    /\ Count(x.r.calls, {"LoadPolicy"}) = 0
                    /\ x.policy = policy

\* a loadPolicy() has returned the error of a failed Clear without a call
\* to the engine, leaving entries behind
C13_Witness ==
    /\ last.op = "LoadPolicy" /\ enableCache = 1 /\ ~panicked
    /\ last.args # {} /\ last.err = BackendErr(FirstFailing(last.args))
    /\ Count(last.calls, {"LoadPolicy"}) = 0
    /\ CachedParams # {}

\* C14 as claimed: for every key, getShardIdx returns an index in
\* [0, shardPartitions), hash values of 2^31 and above after their
\* conversion to the platform's int included.
C14_Original ==
    \A p \in Params : getKey(p).ok => getShardIdx(getKey(p).key) \in Shards

(***************************************************************************)
(* Goroutines.  Each call is cut where another goroutine can observe it:   *)
(* at every Lock and RLock (which block), at the start and at the end of   *)
(* every backend call and of every call of the Enforcer, and at every      *)
(* deferred Unlock.  pc[t] names the point goroutine t has reached:        *)
(*   "rlock"   Enforce, before e.locker[idx].RLock()          (line 148)   *)
(*   "get"     Enforce, inside e.cache[idx].Get(key)          (line 150)   *)
(*   "eval"    Enforce, inside e.Enforcer.Enforce        (lines 72, 77, 86)*)
(*   "wlock"   Enforce, before e.locker[idx].Lock()           (line 164)   *)
(*   "wpend"   Enforce, in Lock: pending writer of the shard  (line 164)   *)
(*   "set"     Enforce, inside e.cache[idx].Set               (line 166)   *)
(*   "delete"  RemovePolicy, RemovePolicies, inside Delete    (119, 136)   *)
(*   "lpclear" LoadPolicy, inside e.cache[i].Clear()          (line 98)    *)
(*   "engine"  inside the Enforcer's LoadPolicy, RemovePolicy or           *)
(*             RemovePolicies                             (103, 124, 143)  *)
(*   "ilock"   InvalidateCache, before e.locker[i].Lock()     (line 188)   *)
(*   "ipend"   InvalidateCache, in Lock: pending writer       (line 188)   *)
(*   "iclear"  InvalidateCache, inside e.cache[i].Clear()     (line 190)   *)
(*   "unwind"  InvalidateCache, running its deferred Unlocks  (line 189)   *)
(***************************************************************************)
\* the calls the goroutines make
ConcParams == { <<S(<<"a">>), S(<<"b">>)>> }
ConcRuleLists == { << <<<<"a">>, <<"b">>>> >> }
ConcKeys == { getKey(p).key : p \in ConcParams }

\* sync.RWMutex: RLock waits while a writer holds the lock, Lock waits
\* while anyone holds it
\* sync.RWMutex: Lock first takes the mutex of the writers and announces
\* the pending writer, then waits for the readers that hold the lock to
\* leave; RLock waits while a writer is pending or holds the lock.
\* The goroutines that wait in Lock of locker i after their announcement
PendingOn(i) == { u \in Threads : pc[u] \in {"wpend", "ipend"} /\ loc[u].idx = i }
\* the goroutines that hold the writers' mutex of locker i
WritersOn(i) == PendingOn(i) \cup { u \in Threads : <<i, u>> \in wheld }
CanRLock(i) == WritersOn(i) = {}
CanAnnounce(i) == WritersOn(i) = {}
CanLock(i) == \A u \in Threads : <<i, u>> \notin rheld

\* the points inside a backend call
BackendPcs == {"get", "set", "delete", "lpclear", "iclear"}

\* the points inside a call of the Enforcer
EnginePcs == {"eval", "engine"}

\* the errors a backend call can end with: a backend installed by SetCache
\* (bc) may fail
CallFaults(t) == IF loc[t].bc THEN {NoErr, BackendErr(loc[t].idx)} ELSE {NoErr}

\* the goroutine leaves its call
Idle(t) ==
    /\ pc' = [pc EXCEPT ![t] = "idle"]
    /\ loc' = [loc EXCEPT ![t] = NoLoc]

\* what ret keeps of a call that returned: the policy mutations and
\* invalidateAll
Returned(t, op, p, err) ==
    ret' = [ret EXCEPT ![t] = [op |-> op, p |-> p, err |-> err, valid |-> TRUE]]

\* a call that panics (index out of range) unwinds before it takes a lock
Panicked(t) ==
    /\ ret' = [ret EXCEPT ![t] = [op |-> "panic", p |-> <<>>, err |-> NoErr, valid |-> FALSE]]
    /\ Idle(t)

\* the Enforcer's policy changed: what was evaluated before is not fresh
\* any more, and the mutations that returned before are not the last one
PolicyChanged(t, op, p, err) ==
    /\ fresh' = {}
    /\ ret' = [u \in Threads |->
                 IF u = t THEN [op |-> op, p |-> p, err |-> err, valid |-> TRUE]
                 ELSE [ret[u] EXCEPT !.valid = FALSE]]

\* the entries of shard idx written by goroutine t, unless the backend it
\* works on has been replaced meanwhile
Store(t, b) == IF loc[t].stale THEN cache ELSE [cache EXCEPT ![loc[t].idx] = b]

KeysOfShard(i) == DOMAIN cache[i].data

(***************************************************************************)
(* Enforce                                                                 *)
(***************************************************************************)
CallEnforce(t, p) ==
    /\ pc[t] = "idle"
    /\ LET k == getKey(p)
           idx == getShardIdx(k.key)
       IN  IF enableCache = 0 \/ ~k.ok
           THEN /\ pc' = [pc EXCEPT ![t] = "eval"]
                /\ loc' = [loc EXCEPT ![t] = [NoLoc EXCEPT !.op = "Enforce", !.p = p]]
                /\ ret' = [ret EXCEPT ![t] = NoRet]
           ELSE IF idx \notin Shards THEN Panicked(t)
           ELSE /\ pc' = [pc EXCEPT ![t] = "rlock"]
                /\ loc' = [loc EXCEPT ![t] = [NoLoc EXCEPT !.op = "Enforce", !.p = p,
                                                           !.key = k.key, !.idx = idx]]
                /\ ret' = [ret EXCEPT ![t] = NoRet]
    /\ swap' = NoSwap
    /\ UNCHANGED <<enableCache, expireTime, cache, policy, intBits, panicked, last, seen, inv,
                   fnIn, fnOut, rheld, wheld, fresh>>

\* getCachedResult: RLock, then Get starts
EnforceRLock(t) ==
    /\ pc[t] = "rlock"
    /\ CanRLock(loc[t].idx)
    /\ rheld' = rheld \cup {<<loc[t].idx, t>>}
    /\ pc' = [pc EXCEPT ![t] = "get"]
    /\ loc' = [loc EXCEPT ![t].g = Entry(cache, loc[t].idx, loc[t].key),
                          ![t].bc = cache[loc[t].idx].custom]
    /\ swap' = NoSwap
    /\ UNCHANGED <<enableCache, expireTime, cache, policy, intBits, panicked, last, seen, inv,
                   fnIn, fnOut, wheld, fresh, ret>>

\* getCachedResult inlined in Enforce: the deferred RUnlock waits for
\* Enforce to return
getCachedResultUnlock_AtReturn(t) == rheld

\* the locks of goroutine t once getCachedResult has returned (defer RUnlock)
getCachedResultUnlock(t) == rheld \ {<<loc[t].idx, t>>}

\* Get ends and getCachedResult returns; a Get that ran while the shard
\* was written without the lock has seen the entry as it was or as it is
EnforceGet(t) ==
    /\ pc[t] = "get"
    /\ rheld' = getCachedResultUnlock(t)
    /\ \E fault \in CallFaults(t),
          g \in (IF loc[t].stale THEN {loc[t].g}
                 ELSE {loc[t].g, Entry(cache, loc[t].idx, loc[t].key)}) :
         IF fault # NoErr \/ g[1]
         THEN Idle(t)
         ELSE /\ pc' = [pc EXCEPT ![t] = "eval"]
              /\ loc' = [loc EXCEPT ![t].g = <<FALSE, FALSE>>, ![t].bc = FALSE, ![t].stale = FALSE]
    /\ swap' = NoSwap
    /\ UNCHANGED <<enableCache, expireTime, cache, policy, intBits, panicked, last, seen, inv,
                   fnIn, fnOut, wheld, fresh, ret>>

\* e.Enforcer.Enforce(rvals...) returns
EnforceEval(t) ==
    /\ pc[t] = "eval"
    /\ \E ev \in EngineEnforce(loc[t].p) :
         IF loc[t].idx = -1 \/ ev.err # NoErr
         THEN Idle(t)
         ELSE /\ pc' = [pc EXCEPT ![t] = "wlock"]
              /\ loc' = [loc EXCEPT ![t].res = ev.res, ![t].cur = TRUE]
    /\ swap' = NoSwap
    /\ UNCHANGED <<enableCache, expireTime, cache, policy, intBits, panicked, last, seen, inv,
                   fnIn, fnOut, rheld, wheld, fresh, ret>>

\* setCachedResult: e.locker[idx].Lock() is called; the goroutine is the
\* pending writer of the shard once no other writer is
EnforceLockPending(t) ==
    /\ pc[t] = "wlock"
    /\ CanAnnounce(loc[t].idx)
    /\ pc' = [pc EXCEPT ![t] = "wpend"]
    /\ swap' = NoSwap
    /\ UNCHANGED <<enableCache, expireTime, cache, policy, intBits, panicked, last, seen, inv,
                   fnIn, fnOut, loc, rheld, wheld, fresh, ret>>

\* setCachedResult: Lock returns when the readers have left, Set starts
EnforceLock(t) ==
    /\ pc[t] = "wpend"
    /\ CanLock(loc[t].idx)
    /\ wheld' = wheld \cup {<<loc[t].idx, t>>}
    /\ pc' = [pc EXCEPT ![t] = "set"]
    /\ loc' = [loc EXCEPT ![t].bc = cache[loc[t].idx].custom]
    /\ swap' = NoSwap
    /\ UNCHANGED <<enableCache, expireTime, cache, policy, intBits, panicked, last, seen, inv,
                   fnIn, fnOut, rheld, fresh, ret>>

\* setCachedResult without its deferred Unlock
setCachedResultUnlock_Missing(t) == wheld

\* the locks of goroutine t once setCachedResult has returned (defer Unlock)
setCachedResultUnlock(t) == wheld \ {<<loc[t].idx, t>>}

\* Set ends, setCachedResult and Enforce return
EnforceSet(t) ==
    /\ pc[t] = "set"
    /\ wheld' = setCachedResultUnlock(t)
    /\ \E fault \in CallFaults(t) :
         LET s == CacheSet(cache[loc[t].idx], loc[t].key, loc[t].res, fault)
         IN  /\ cache' = Store(t, s.b)
             /\ fresh' = IF fault # NoErr \/ loc[t].stale THEN fresh
                         ELSE IF loc[t].cur THEN fresh \cup {loc[t].key}
                         ELSE fresh \ {loc[t].key}
    /\ Idle(t)
    /\ swap' = NoSwap
    /\ UNCHANGED <<enableCache, expireTime, policy, intBits, panicked, last, seen, inv,
                   fnIn, fnOut, rheld, ret>>

(***************************************************************************)
(* RemovePolicy, RemovePolicies                                            *)
(***************************************************************************)
\* irule once the rules 1 .. n have been copied into it
RECURSIVE IruleAt(_, _)
IruleAt(rules, n) ==
    IF n = 0 THEN [i \in 1 .. Len(rules[1]) |-> NilParam]
    ELSE [i \in 1 .. Len(rules[1]) |->
             IF i <= Len(rules[n]) THEN S(rules[n][i]) ELSE IruleAt(rules, n - 1)[i]]

\* goroutine t goes into the Delete of RemovePolicy (n = 0) or of the
\* n-th rule of RemovePolicies; no lock is taken
StartDelete(t, op, p, n) ==
    IF n > 0 /\ Len(p[n]) > Len(p[1]) THEN Panicked(t)
    ELSE
    LET k == IF n = 0 THEN getKey(p) ELSE getKey(IruleAt(p, n))
        idx == getShardIdx(k.key)
    IN  IF n = 0 /\ ~k.ok
        THEN /\ pc' = [pc EXCEPT ![t] = "engine"]
             /\ loc' = [loc EXCEPT ![t] = [NoLoc EXCEPT !.op = op, !.p = p]]
             /\ ret' = [ret EXCEPT ![t] = NoRet]
        ELSE IF idx \notin Shards THEN Panicked(t)
        ELSE /\ pc' = [pc EXCEPT ![t] = "delete"]
             /\ loc' = [loc EXCEPT ![t] = [NoLoc EXCEPT !.op = op, !.p = p, !.n = n,
                                                        !.key = k.key, !.idx = idx,
                                                        !.bc = cache[idx].custom]]
             /\ ret' = [ret EXCEPT ![t] = NoRet]

CallRemovePolicy(t, p) ==
    /\ pc[t] = "idle"
    /\ IF enableCache # 0
       THEN StartDelete(t, "RemovePolicy", p, 0)
       ELSE /\ pc' = [pc EXCEPT ![t] = "engine"]
            /\ loc' = [loc EXCEPT ![t] = [NoLoc EXCEPT !.op = "RemovePolicy", !.p = p]]
            /\ ret' = [ret EXCEPT ![t] = NoRet]
    /\ swap' = NoSwap
    /\ UNCHANGED <<enableCache, expireTime, cache, policy, intBits, panicked, last, seen, inv,
                   fnIn, fnOut, rheld, wheld, fresh>>

CallRemovePolicies(t, rules) ==
    /\ pc[t] = "idle"
    /\ IF Len(rules) # 0 /\ enableCache # 0
       THEN StartDelete(t, "RemovePolicies", rules, 1)
       ELSE /\ pc' = [pc EXCEPT ![t] = "engine"]
            /\ loc' = [loc EXCEPT ![t] = [NoLoc EXCEPT !.op = "RemovePolicies", !.p = rules]]
            /\ ret' = [ret EXCEPT ![t] = NoRet]
    /\ swap' = NoSwap
    /\ UNCHANGED <<enableCache, expireTime, cache, policy, intBits, panicked, last, seen, inv,
                   fnIn, fnOut, rheld, wheld, fresh>>

\* e.cache[idx].Delete(key) ends
RemoveDelete(t) ==
    /\ pc[t] = "delete"
    /\ \E fault \in CallFaults(t) :
         LET d == CacheDelete(cache[loc[t].idx], loc[t].key, fault)
         IN  IF d.err # NoErr /\ d.err # ErrNoSuchKey
             THEN /\ Idle(t)
                  /\ UNCHANGED <<cache, fresh, ret>>
             ELSE /\ cache' = Store(t, d.b)
                  /\ fresh' = IF loc[t].stale THEN fresh ELSE fresh \ {loc[t].key}
                  /\ IF loc[t].op = "RemovePolicies" /\ loc[t].n < Len(loc[t].p)
                     THEN StartDelete(t, "RemovePolicies", loc[t].p, loc[t].n + 1)
                     ELSE /\ pc' = [pc EXCEPT ![t] = "engine"]
                          /\ loc' = [loc EXCEPT ![t].bc = FALSE, ![t].stale = FALSE,
                                                ![t].key = <<>>, ![t].idx = -1, ![t].n = 0]
                          /\ ret' = ret
    /\ swap' = NoSwap
    /\ UNCHANGED <<enableCache, expireTime, policy, intBits, panicked, last, seen, inv,
                   fnIn, fnOut, rheld, wheld>>

\* what the Enforcer does in the call goroutine t has made
EngineMutation(t) ==
    IF loc[t].op = "LoadPolicy" THEN EngineLoadPolicy
    ELSE IF loc[t].op = "RemovePolicy" THEN EngineRemovePolicy(loc[t].p)
    ELSE EngineRemovePolicies(loc[t].p)

\* e.Enforcer.LoadPolicy(), RemovePolicy(params...) or RemovePolicies(rules)
\* returns, and with it the call
EngineMutate(t) ==
    /\ pc[t] = "engine"
    /\ \E m \in EngineMutation(t) :
         /\ policy' = m.policy
         /\ IF m.err = NoErr
            THEN /\ PolicyChanged(t, loc[t].op, loc[t].p, NoErr)
                 /\ loc' = [u \in Threads |-> IF u = t THEN NoLoc ELSE [loc[u] EXCEPT !.cur = FALSE]]
            ELSE /\ loc' = [loc EXCEPT ![t] = NoLoc]
                 /\ UNCHANGED <<fresh, ret>>
    /\ pc' = [pc EXCEPT ![t] = "idle"]
    /\ swap' = NoSwap
    /\ UNCHANGED <<enableCache, expireTime, cache, intBits, panicked, last, seen, inv,
                   fnIn, fnOut, rheld, wheld>>

(***************************************************************************)
(* LoadPolicy                                                              *)
(***************************************************************************)
CallLoadPolicy(t) ==
    /\ pc[t] = "idle"
    /\ IF enableCache # 0
       THEN /\ pc' = [pc EXCEPT ![t] = "lpclear"]
            /\ loc' = [loc EXCEPT ![t] = [NoLoc EXCEPT !.op = "LoadPolicy", !.idx = 0,
                                                       !.bc = cache[0].custom]]
       ELSE /\ pc' = [pc EXCEPT ![t] = "engine"]
            /\ loc' = [loc EXCEPT ![t] = [NoLoc EXCEPT !.op = "LoadPolicy"]]
    /\ ret' = [ret EXCEPT ![t] = NoRet]
    /\ swap' = NoSwap
    /\ UNCHANGED <<enableCache, expireTime, cache, policy, intBits, panicked, last, seen, inv,
                   fnIn, fnOut, rheld, wheld, fresh>>

\* e.cache[i].Clear() ends; the loop goes on to the next shard, no lock taken
LoadPolicyStep(t) ==
    /\ pc[t] = "lpclear"
    /\ \E fault \in CallFaults(t) :
         LET r == CacheClear(cache[loc[t].idx], fault)
             i == loc[t].idx
         IN  IF r.err # NoErr
             THEN /\ Idle(t)
                  /\ UNCHANGED <<cache, fresh>>
             ELSE /\ cache' = Store(t, r.b)
                  /\ fresh' = IF loc[t].stale THEN fresh ELSE fresh \ KeysOfShard(i)
                  /\ IF i + 1 < shardPartitions
                     THEN /\ pc' = pc
                          /\ loc' = [loc EXCEPT ![t].idx = i + 1, ![t].stale = FALSE,
                                                ![t].bc = cache[i + 1].custom]
                     ELSE /\ pc' = [pc EXCEPT ![t] = "engine"]
                          /\ loc' = [loc EXCEPT ![t].idx = -1, ![t].stale = FALSE, ![t].bc = FALSE]
    /\ swap' = NoSwap
    /\ UNCHANGED <<enableCache, expireTime, policy, intBits, panicked, last, seen, inv,
                   fnIn, fnOut, rheld, wheld, ret>>

(***************************************************************************)
(* InvalidateCache                                                         *)
(***************************************************************************)
CallInvalidateCache(t) ==
    /\ pc[t] = "idle"
    /\ pc' = [pc EXCEPT ![t] = "ilock"]
    /\ loc' = [loc EXCEPT ![t] = [NoLoc EXCEPT !.op = "InvalidateCache", !.idx = 0]]
    /\ ret' = [ret EXCEPT ![t] = NoRet]
    /\ swap' = NoSwap
    /\ UNCHANGED <<enableCache, expireTime, cache, policy, intBits, panicked, last, seen, inv,
                   fnIn, fnOut, rheld, wheld, fresh>>

\* every deferred call unlocks the shard of the iteration that deferred
\* it, whatever the loop did afterwards
deferUnlock_LastIndex(defers, i) == [j \in 1 .. (Len(defers) + 1) |-> i]

\* defer e.locker[i].Unlock(): the deferred calls, last first at the end
deferUnlock(defers, i) == Append(defers, i)

\* e.locker[i].Lock() is called; the goroutine is the pending writer of
\* shard i once no other writer is
InvalidateLockPending(t) ==
    /\ pc[t] = "ilock"
    /\ CanAnnounce(loc[t].idx)
    /\ pc' = [pc EXCEPT ![t] = "ipend"]
    /\ swap' = NoSwap
    /\ UNCHANGED <<enableCache, expireTime, cache, policy, intBits, panicked, last, seen, inv,
                   fnIn, fnOut, loc, rheld, wheld, fresh, ret>>

\* e.locker[i].Lock() returns when the readers have left;
\* defer e.locker[i].Unlock(); then Clear starts
InvalidateLock(t) ==
    /\ pc[t] = "ipend"
    /\ CanLock(loc[t].idx)
    /\ wheld' = wheld \cup {<<loc[t].idx, t>>}
    /\ pc' = [pc EXCEPT ![t] = "iclear"]
    /\ loc' = [loc EXCEPT ![t].defers = deferUnlock(loc[t].defers, loc[t].idx),
                          ![t].bc = cache[loc[t].idx].custom]
    /\ swap' = NoSwap
    /\ UNCHANGED <<enableCache, expireTime, cache, policy, intBits, panicked, last, seen, inv,
                   fnIn, fnOut, rheld, fresh, ret>>

\* e.cache[i].Clear() ends: return err, or the next shard, or return nil
InvalidateClear(t) ==
    /\ pc[t] = "iclear"
    /\ \E fault \in CallFaults(t) :
         LET r == CacheClear(cache[loc[t].idx], fault)
             i == loc[t].idx
         IN  IF r.err # NoErr
             THEN /\ pc' = [pc EXCEPT ![t] = "unwind"]
                  /\ loc' = [loc EXCEPT ![t].err = r.err, ![t].bc = FALSE, ![t].stale = FALSE]
                  /\ UNCHANGED <<cache, fresh>>
             ELSE /\ cache' = Store(t, r.b)
                  /\ fresh' = IF loc[t].stale THEN fresh ELSE fresh \ KeysOfShard(i)
                  /\ IF i + 1 < shardPartitions
                     THEN /\ pc' = [pc EXCEPT ![t] = "ilock"]
                          /\ loc' = [loc EXCEPT ![t].idx = i + 1, ![t].bc = FALSE, ![t].stale = FALSE]
                     ELSE /\ pc' = [pc EXCEPT ![t] = "unwind"]
                          /\ loc' = [loc EXCEPT ![t].bc = FALSE, ![t].stale = FALSE]
    /\ swap' = NoSwap
    /\ UNCHANGED <<enableCache, expireTime, policy, intBits, panicked, last, seen, inv,
                   fnIn, fnOut, rheld, wheld, ret>>

\* the function returns: one deferred Unlock runs, the last deferred
\* first; after the last of them the call has returned
InvalidateUnwind(t) ==
    /\ pc[t] = "unwind"
    /\ LET d == loc[t].defers
       IN  /\ wheld' = wheld \ {<<d[Len(d)], t>>}
           /\ IF Len(d) = 1
              THEN /\ Idle(t)
                   /\ Returned(t, "InvalidateCache", <<>>, loc[t].err)
              ELSE /\ pc' = pc
                   /\ loc' = [loc EXCEPT ![t].defers = SubSeq(d, 1, Len(d) - 1)]
                   /\ ret' = ret
    /\ swap' = NoSwap
    /\ UNCHANGED <<enableCache, expireTime, cache, policy, intBits, panicked, last, seen, inv,
                   fnIn, fnOut, rheld, fresh>>

(***************************************************************************)
(* SetCache                                                                *)
(***************************************************************************)
\* the goroutines that are inside a backend call on shard idx
InBackendOn(idx) == { u \in Threads : pc[u] \in BackendPcs /\ loc[u].idx = idx }

\* e.cache[idx] = c, no lock taken: the backend calls in progress on the
\* shard go on with the backend that was there
CallSetCache(t, key, c) ==
    /\ pc[t] = "idle"
    /\ LET idx == getShardIdx(key)
       IN  IF idx \notin Shards
           THEN /\ Panicked(t)
                /\ swap' = NoSwap
                /\ UNCHANGED <<cache, fresh>>
           ELSE /\ cache' = [cache EXCEPT ![idx] = c]
                /\ fresh' = fresh \ KeysOfShard(idx)
                /\ swap' = [idx |-> idx, during |-> { <<u, pc[u]>> : u \in InBackendOn(idx) }]
                /\ loc' = [u \in Threads |->
                             IF u \in InBackendOn(idx) THEN [loc[u] EXCEPT !.stale = TRUE] ELSE loc[u]]
                /\ ret' = [ret EXCEPT ![t] = NoRet]
                /\ pc' = pc
    /\ UNCHANGED <<enableCache, expireTime, policy, intBits, panicked, last, seen, inv,
                   fnIn, fnOut, rheld, wheld>>

(***************************************************************************)
(* The goroutines together                                                 *)
(***************************************************************************)
InitConc ==
    /\ enableCache = 1
    /\ expireTime = 0
    /\ cache = [i \in Shards |-> DefaultCache]
    /\ policy \in SUBSET PolicyRules
    /\ intBits \in {32, 64}
    /\ panicked = FALSE
    /\ last = Done("NewCachedEnforcer", <<>>, {}, Ret(cache, FALSE, NoErr, <<>>))
    /\ seen = NoSeen
    /\ inv = "idle"
    /\ fnIn = <<>>
    /\ fnOut = <<>>
    /\ ConcIdle

Step(t) ==
    \/ \E p \in ConcParams : CallEnforce(t, p)
    \/ EnforceRLock(t)
    \/ EnforceGet(t)
    \/ EnforceEval(t)
    \/ EnforceLockPending(t)
    \/ EnforceLock(t)
    \/ EnforceSet(t)
    \/ \E p \in ConcParams : CallRemovePolicy(t, p)
    \/ \E rules \in ConcRuleLists : CallRemovePolicies(t, rules)
    \/ RemoveDelete(t)
    \/ EngineMutate(t)
    \/ CallLoadPolicy(t)
    \/ LoadPolicyStep(t)
    \/ CallInvalidateCache(t)
    \/ InvalidateLockPending(t)
    \/ InvalidateLock(t)
    \/ InvalidateClear(t)
    \/ InvalidateUnwind(t)
    \/ \E key \in ConcKeys, c \in Backends : CallSetCache(t, key, c)

NextConc == \E t \in Threads : Step(t)

SpecConc == InitConc /\ [][NextConc]_vars

\* the steps inside a call: every step but the start of a call
Acquire(t) ==
    \/ EnforceRLock(t)
    \/ EnforceLockPending(t) \/ EnforceLock(t)
    \/ InvalidateLockPending(t) \/ InvalidateLock(t)

Running(t) ==
    \/ EnforceGet(t) \/ EnforceEval(t) \/ EnforceSet(t)
    \/ RemoveDelete(t) \/ EngineMutate(t) \/ LoadPolicyStep(t)
    \/ InvalidateClear(t) \/ InvalidateUnwind(t)

\* Every backend call and every call of the Enforcer returns, a goroutine
\* that can run does run, and a goroutine that waits for a lock which is
\* free again and again gets it (sync.RWMutex does not starve a waiter).
SpecConcFair ==
    /\ InitConc
    /\ [][NextConc]_vars
    /\ \A t \in Threads : WF_vars(Running(t)) /\ SF_vars(Acquire(t))

(***************************************************************************)
(* Claims on the goroutines                                                *)
(***************************************************************************)
RHolds(t) == { i \in Shards : <<i, t>> \in rheld }
WHolds(t) == { i \in Shards : <<i, t>> \in wheld }

Range(q) == { q[j] : j \in 1 .. Len(q) }

\* C15: whenever invalidateAll() has returned, with or without an error,
\* the goroutine holds no shard lock: while the call runs, the deferred
\* Unlocks are those of the locks it holds, one for each, and a goroutine
\* that is in no call holds nothing, so every lock is free for the next
\* decide.
C15_LocksReleased ==
    \A t \in Threads :
        /\ pc[t] = "idle" => (RHolds(t) = {} /\ WHolds(t) = {})
        /\ loc[t].op = "InvalidateCache" =>
               /\ Range(loc[t].defers) = WHolds(t)
               /\ Len(loc[t].defers) = Cardinality(WHolds(t))

\* an invalidateAll() has returned a backend error and holds nothing, and
\* a decide of another goroutine has taken the lock of the shard that failed
C15_Witness ==
    \E t \in Threads, u \in Threads :
        /\ pc[t] = "idle" /\ ret[t].op = "InvalidateCache" /\ ret[t].err.kind = "backend"
        /\ WHolds(t) = {}
        /\ u # t /\ pc[u] \in {"get", "set"} /\ loc[u].idx = ret[t].err.shard

\* C16 as claimed: a goroutine inside a backend Delete, Clear or Set on
\* shard i holds the write lock of shard i, one inside a Get holds its
\* read lock; so no Delete or Clear on a shard is in progress together
\* with a Get or Set of another goroutine on that shard.
C16_Original ==
    /\ \A t \in Threads :
           /\ pc[t] \in {"set", "delete", "lpclear", "iclear"} => loc[t].idx \in WHolds(t)
           /\ pc[t] = "get" => loc[t].idx \in RHolds(t)
    /\ \A t \in Threads, u \in Threads :
           (t # u /\ pc[t] \in {"delete", "lpclear", "iclear"} /\ pc[u] \in {"get", "set"})
               => loc[t].idx # loc[u].idx

\* C17 as claimed: the backend of a shard is never replaced while another
\* goroutine holds the shard's read or write lock and is inside a Get,
\* Set or Clear on it.
C17_Original ==
    \A x \in swap.during : x[2] \notin {"get", "set", "iclear"}

\* the keys that have an entry
CachedKeys == UNION { DOMAIN cache[i].data : i \in Shards }

\* C18 as claimed: with the cache enabled throughout, once removeRule(p)
\* has returned without error the cache holds no entry for p that was
\* evaluated before the removal took effect, and once loadPolicy() has
\* returned without error it holds no entry at all that was evaluated
\* before the reload took effect.
C18_Original ==
    \A t \in Threads :
        (ret[t].valid /\ ret[t].err = NoErr) =>
            /\ ret[t].op = "RemovePolicy" =>
                   (getKey(ret[t].p).key \in CachedKeys => getKey(ret[t].p).key \in fresh)
            /\ ret[t].op = "LoadPolicy" => CachedKeys \subseteq fresh

\* C19: under the fairness of SpecConcFair every call a goroutine is in
\* returns (or unwinds), whatever calls the goroutines make together,
\* several invalidateAll() at once included.
C19_EveryCallReturns ==
    \A t \in Threads : (pc[t] # "idle") ~> (pc[t] = "idle")

\* two invalidateAll() at once: one holds shard locks and is inside a
\* Clear, the other waits for a lock the first one holds
C19_Witness ==
    \E t \in Threads, u \in Threads :
        /\ pc[t] = "iclear" /\ loc[t].idx > 0
        /\ pc[u] = "ilock" /\ loc[u].idx \in WHolds(t)

\* C20: a goroutine inside a call of the Enforcer holds no shard lock,
\* neither read nor write.
C20_NoLockInEngine ==
    \A t \in Threads : pc[t] \in EnginePcs => (RHolds(t) = {} /\ WHolds(t) = {})

\* a decide is inside the Enforcer's evaluation after a miss while another
\* goroutine is inside a Get or a Set on the same shard
C20_Witness ==
    \E t \in Threads, u \in Threads :
        /\ pc[t] = "eval" /\ loc[t].idx \in Shards /\ RHolds(t) = {} /\ WHolds(t) = {}
        /\ u # t /\ pc[u] \in {"get", "set"} /\ loc[u].idx = loc[t].idx

====
